---- MODULE Spec2Model ----
(***************************************************************************)
(* AstroViewSim: the visibility pipeline (GeometricVisibility,             *)
(* LightingAnalysis, VisibilityAnalyzer, VisibilityStats) and the camera   *)
(* sweep of main.py.                                                       *)
(*                                                                         *)
(* Numbers.  Positions and directions are integer 3-vectors; normals are   *)
(* axis unit vectors or the zero vector (MeshProcessor's result for a      *)
(* degenerate triangle).  A normalised quantity a/sqrt(s) is kept as the   *)
(* pair (a, s) and compared exactly (LeqSqrt), so the arithmetic is that   *)
(* of the reals; a division 0/0 or x/0 of numpy gives nan or inf, and      *)
(* every comparison with it is False, which the guards s > 0 state.        *)
(* Angles are degrees from AnglesDeg, whose cosines are k/2; numpy's       *)
(* cos(deg2rad(90)) is 6.1e-17, a positive number, which CosEps keeps.     *)
(***************************************************************************)
EXTENDS Integers, Sequences, FiniteSets, TLC

(* ------------------------------- the state ----------------------------- *)
VARIABLES
  analyzer,   \* the VisibilityAnalyzer: mesh, patch_positions, patch_normals
  call,       \* the last direct call of a tester: arguments and result
  inv,        \* the last analyze_visibility invocation: arguments and outcome
  prev,       \* the invocation before the last one
  main        \* main(): the camera sweep's position, locals and results

vars == <<analyzer, call, inv, prev, main>>

(* ------------------------------ bounds -------------------------------- *)
\* Patches of a mesh (0 .. MaxPatches).
MaxPatches == 2

(* ----------------------------- vectors -------------------------------- *)
Origin == <<0, 0, 0>>

world_up == <<0, 0, 1>>

Dot(u, v) == u[1] * v[1] + u[2] * v[2] + u[3] * v[3]

Cross(u, v) ==
  << u[2] * v[3] - u[3] * v[2],
     u[3] * v[1] - u[1] * v[3],
     u[1] * v[2] - u[2] * v[1] >>

VSub(u, v) == << u[1] - v[1], u[2] - v[2], u[3] - v[3] >>

VScale(k, u) == << k * u[1], k * u[2], k * u[3] >>

Abs(x) == IF x < 0 THEN -x ELSE x

\* a <= b * sqrt(s), for integers a, b and s >= 0
LeqSqrt(a, b, s) ==
  IF a <= 0 /\ b >= 0 THEN TRUE
  ELSE IF a > 0 /\ b <= 0 THEN FALSE
  ELSE IF a > 0 THEN a * a <= b * b * s
  ELSE a * a >= b * b * s

(* ------------------------------ angles -------------------------------- *)
AnglesDeg == {0, 60, 90, 120, 180}

\* 2 * cos(deg)
Cos2(deg) ==
  CASE deg = 0 -> 2
    [] deg = 60 -> 1
    [] deg = 90 -> 0
    [] deg = 120 -> -1
    [] deg = 180 -> -2

\* np.cos(np.deg2rad(90)) = 6.1e-17: above zero by less than any gap between
\* two values the model compares
CosEps(deg) == IF deg = 90 THEN 1 ELSE 0

\* a/sqrt(s) >= cos(deg), s > 0
GeqCos(a, s, deg) ==
  IF CosEps(deg) = 1 THEN a > 0 ELSE LeqSqrt(-2 * a, -Cos2(deg), s)

\* the comparison of LeqNegCos reversed: a/sqrt(s) >= -cos(deg)
GeqNegCos(a, s, deg) ==
  IF CosEps(deg) = 1 THEN a >= 0 ELSE LeqSqrt(-2 * a, Cos2(deg), s)

\* a/sqrt(s) <= -cos(deg), s > 0
LeqNegCos(a, s, deg) ==
  IF CosEps(deg) = 1 THEN a < 0 ELSE LeqSqrt(2 * a, -Cos2(deg), s)

FovDegs == {2, 90}

\* tan(deg2rad(fov/2)) as a fraction <<num, den>>: tan(45 deg) = 1 and
\* tan(1 deg) = 0.01746 (1/57 stands for it: no quotient of the model's
\* coordinates lies between the two)
TanHalf(fov) == IF fov = 90 THEN <<1, 1>> ELSE <<1, 57>>

(* ------------------------------- masks -------------------------------- *)
Masks(n) == [1..n -> BOOLEAN]

Count(mask) == Cardinality({i \in DOMAIN mask : mask[i]})

\* np.where(mask)[0]: the true indices, ascending
RECURSIVE WhereFrom(_, _)
WhereFrom(mask, i) ==
  IF i > Len(mask) THEN <<>>
  ELSE IF mask[i] THEN <<i>> \o WhereFrom(mask, i + 1)
  ELSE WhereFrom(mask, i + 1)

Where(mask) == WhereFrom(mask, 1)

\* a[idx] for an index array idx
Take(a, idx) == [k \in 1..Len(idx) |-> a[idx[k]]]

\* the position of i in the index array idx (0 when absent)
RECURSIVE IndexOfFrom(_, _, _)
IndexOfFrom(idx, i, k) ==
  IF k > Len(idx) THEN 0
  ELSE IF idx[k] = i THEN k
  ELSE IndexOfFrom(idx, i, k + 1)

IndexOf(idx, i) == IndexOfFrom(idx, i, 1)

\* out = base.copy(); out[idx] = values
Scatter(base, idx, values) ==
  [i \in DOMAIN base |->
     IF IndexOf(idx, i) = 0 THEN base[i] ELSE values[IndexOf(idx, i)]]

\* out = base.copy(); out[base] = values
ScatterInto(base, values) ==
  [i \in 1..Len(base) |->
     IF base[i] THEN values[IndexOf(Where(base), i)] ELSE base[i]]

\* np.ones_like in the place of np.zeros_like
ones_like(mask) == [i \in DOMAIN mask |-> TRUE]

\* np.zeros_like(mask)
zeros_like(mask) == [i \in DOMAIN mask |-> FALSE]

(* ----------------- GeometricVisibility.check_fov_visibility ------------ *)
\* |num/sqrt(numsq)| / |z/sqrt(zsq)| <= tan(fov/2); False when a factor is
\* nan (numsq = 0 or zsq = 0) or the quotient is inf or nan (z = 0)
TanWithin(num, numsq, z, zsq, fov) ==
  /\ numsq > 0
  /\ zsq > 0
  /\ z # 0
  /\ LET t == TanHalf(fov)
         a == Abs(num) * t[2]
         b == Abs(z) * t[1]
     IN  a * a * zsq <= b * b * numsq

\* fov_visible_patch without the in_front test
fov_visible_patch_any_side(position, normal, camera_pos, target, fov_x_deg, fov_y_deg, max_angle_deg) ==
  LET z_cam == VSub(target, camera_pos)
      zz == Dot(z_cam, z_cam)
      x_cam == Cross(z_cam, world_up)
      xx == Dot(x_cam, x_cam)
      y_cam == Cross(x_cam, z_cam)
      view_vector == VSub(position, camera_pos)
      vv == Dot(view_vector, view_vector)
      z_coord == Dot(view_vector, z_cam)
      dot_product == Dot(normal, view_vector)
  IN  /\ vv > 0 /\ dot_product < 0
      /\ LeqNegCos(dot_product, vv, max_angle_deg)
      /\ zz > 0
      /\ TanWithin(Dot(view_vector, x_cam), xx, z_coord, zz, fov_x_deg)
      /\ TanWithin(Dot(view_vector, y_cam), xx, z_coord, 1, fov_y_deg)

\* the in-front test with the sign of z_coords reversed
in_front_reversed(position, camera_pos, target) ==
  LET z_cam == VSub(target, camera_pos)
  IN  Dot(z_cam, z_cam) > 0 /\ Dot(VSub(position, camera_pos), z_cam) < 0

\* in_front for one patch: z_coords > 0, z_cam being (target - camera_pos)
\* times 1/sqrt(zz); a zero z_cam normalises to nan
in_front(position, camera_pos, target) ==
  LET z_cam == VSub(target, camera_pos)
  IN  Dot(z_cam, z_cam) > 0 /\ Dot(VSub(position, camera_pos), z_cam) > 0

\* facing_camera for one patch: dot_products < 0, the view direction being
\* (position - camera_pos) times 1/sqrt(vv); a zero view vector gives nan
facing_camera(position, normal, camera_pos) ==
  LET view_vector == VSub(position, camera_pos)
  IN  Dot(view_vector, view_vector) > 0 /\ Dot(normal, view_vector) < 0

\* One patch of check_fov_visibility's mask.
fov_visible_patch(position, normal, camera_pos, target, fov_x_deg, fov_y_deg, max_angle_deg) ==
  LET z_cam == VSub(target, camera_pos)          \* times 1/sqrt(zz)
      zz == Dot(z_cam, z_cam)
      x_cam == Cross(z_cam, world_up)            \* times 1/sqrt(xx)
      xx == Dot(x_cam, x_cam)
      y_cam == Cross(x_cam, z_cam)               \* times 1/sqrt(xx * zz)
      view_vector == VSub(position, camera_pos)
      vv == Dot(view_vector, view_vector)
      z_coord == Dot(view_vector, z_cam)
      dot_product == Dot(normal, view_vector)    \* times 1/sqrt(vv)
      good_viewing_angle == vv > 0 /\ LeqNegCos(dot_product, vv, max_angle_deg)
      within_fov_x ==
        zz > 0 /\ TanWithin(Dot(view_vector, x_cam), xx, z_coord, zz, fov_x_deg)
      \* y_cam's norm is sqrt(xx * zz): zz cancels against z_cam's
      within_fov_y ==
        zz > 0 /\ TanWithin(Dot(view_vector, y_cam), xx, z_coord, 1, fov_y_deg)
  IN  /\ in_front(position, camera_pos, target)
      /\ facing_camera(position, normal, camera_pos)
      /\ good_viewing_angle /\ within_fov_x /\ within_fov_y

check_fov_visibility(patch_positions, patch_normals, camera_pos, target, fov_x_deg, fov_y_deg, max_angle_deg) ==
  [i \in 1..Len(patch_positions) |->
     fov_visible_patch(patch_positions[i], patch_normals[i], camera_pos, target,
                       fov_x_deg, fov_y_deg, max_angle_deg)]

(* ---------------- GeometricVisibility.filter_occluded_patches ---------- *)
\* The ray caster's answer for a batch of rays: for each ray (1..n, in the
\* order of the batch) the set of its hits, a hit on a camera ray being the
\* point origin + t * (centroid - origin) with t in units of 1e-8.
\* 1e8: the number of 1e-8 units in one
HitUnit == 100000000

\* no hit; the patch's own triangle; a nearer triangle; a hit nearer by less
\* than the tolerance; a triangle behind the patch
CamHitSets ==
  {{}, {HitUnit}, {HitUnit \div 2, HitUnit}, {HitUnit - 50, HitUnit}, {2 * HitUnit}}

NoHits(hits) == \A k \in DOMAIN hits : hits[k] = {}

\* the comparison without its tolerance: t * d < d
CloserThanTarget_no_tolerance(t, dd) == dd > 0 /\ t < HitUnit

\* t * d < d - (d * 1e-6 + 1e-8) for d = sqrt(dd): (1e8 - t - 100) * d > 1
CloserThanTarget(t, dd) ==
  LET k == HitUnit - t - 100
  IN  dd > 0 /\ k >= 1 /\ (k >= 2 \/ dd >= 2)

\* cam_is_occluded with np.all in the place of np.any
cam_is_occluded_all(hits, candidate_positions, camera_pos) ==
  [k \in 1..Len(candidate_positions) |->
     LET ray == VSub(candidate_positions[k], camera_pos)
     IN  \A t \in hits[k] : CloserThanTarget(t, Dot(ray, ray))]

cam_is_occluded(hits, candidate_positions, camera_pos) ==
  [k \in 1..Len(candidate_positions) |->
     LET ray == VSub(candidate_positions[k], camera_pos)
     IN  \E t \in hits[k] : CloserThanTarget(t, Dot(ray, ray))]

\* visible_mask = candidate_mask, without the copy: the caller's array is the
\* one the tester writes to
candidate_mask_aliased(candidate_mask, visible_mask) == visible_mask

\* The caller's candidate_mask array after a tester returned visible_mask:
\* visible_mask = candidate_mask.copy() is another array, and the tester
\* writes to no other, so the caller's array keeps its entries.
candidate_mask_after(candidate_mask, visible_mask) == candidate_mask

\* filter_occluded_patches writing ~is_occluded to the first positions of the
\* mask instead of the candidates' positions
filter_occluded_patches_prefix(hits, patch_positions, camera_pos, candidate_mask) ==
  LET candidate_positions == Take(patch_positions, Where(candidate_mask))
      is_occluded == cam_is_occluded(hits, candidate_positions, camera_pos)
  IN  [i \in DOMAIN candidate_mask |->
         IF i <= Len(is_occluded) THEN ~is_occluded[i] ELSE candidate_mask[i]]

filter_occluded_patches(hits, patch_positions, camera_pos, candidate_mask) ==
  LET visible_mask == candidate_mask
      candidate_positions == Take(patch_positions, Where(candidate_mask))
      is_occluded == cam_is_occluded(hits, candidate_positions, camera_pos)
  IN  IF Count(candidate_mask) = 0 THEN visible_mask
      ELSE IF NoHits(hits) THEN visible_mask
      ELSE ScatterInto(candidate_mask, [k \in DOMAIN is_occluded |-> ~is_occluded[k]])

(* ------------------- LightingAnalysis.check_sun_illumination ----------- *)
\* A sun_direction argument: the vector vec / sqrt(norm_sq).
Direction(vec, norm_sq) == [vec |-> vec, norm_sq |-> norm_sq]

\* the test without its angle constraint
sun_facing_only(normal, direction, max_sun_angle_deg) ==
  Dot(normal, direction.vec) > 0

\* One patch of check_sun_illumination's mask.
sun_illuminated_dir(normal, direction, max_sun_angle_deg) ==
  LET dot_product == Dot(normal, direction.vec)   \* times 1/sqrt(norm_sq)
      facing_sun == dot_product > 0
      good_sun_angle == GeqCos(dot_product, direction.norm_sq, max_sun_angle_deg)
  IN  facing_sun /\ good_sun_angle

check_sun_illumination_dir(patch_normals, direction, max_sun_angle_deg) ==
  [k \in 1..Len(patch_normals) |->
     sun_illuminated_dir(patch_normals[k], direction, max_sun_angle_deg)]

\* the same for a sun_direction of integer coordinates
sun_illuminated_patch(normal, sun_direction, max_sun_angle_deg) ==
  sun_illuminated_dir(normal, Direction(sun_direction, 1), max_sun_angle_deg)

check_sun_illumination(patch_normals, sun_direction, max_sun_angle_deg) ==
  check_sun_illumination_dir(patch_normals, Direction(sun_direction, 1),
                             max_sun_angle_deg)

(* ----------------- LightingAnalysis.check_reflection_conditions -------- *)
\* A Python value as the callee sees it: its number of array dimensions (0: a
\* float) and its content.
Scalar(x) == [ndim |-> 0, val |-> <<x>>]

Vec(v) == [ndim |-> 1, val |-> v]

Mat(rows) == [ndim |-> 2, val |-> rows]

Returned(mask) == [kind |-> "return", exc |-> "", mask |-> mask]

Raised(exc) == [kind |-> "raise", exc |-> exc, mask |-> <<>>]

\* ndim of np.dot(a, b)
DotNdim(a, b) ==
  IF a.ndim = 2 /\ b.ndim = 1 THEN 1
  ELSE IF a.ndim = 1 /\ b.ndim = 0 THEN 1
  ELSE IF a.ndim = 1 /\ b.ndim = 1 THEN 0
  ELSE a.ndim + b.ndim

reflection_good_patch(position, normal, camera_pos, sun_direction, min_reflection_angle_deg) ==
  LET view_direction == VSub(camera_pos, position)          \* times 1/sqrt(vv)
      vv == Dot(view_direction, view_direction)
      dot_nl == Dot(normal, sun_direction)
      reflection_direction ==                               \* times 1/sqrt(rr)
        VSub(VScale(2 * dot_nl, normal), sun_direction)
      rr == Dot(reflection_direction, reflection_direction)
      dot_rv == Dot(reflection_direction, view_direction)
  IN  vv > 0 /\ rr > 0 /\ GeqCos(dot_rv, rr * vv, min_reflection_angle_deg)

\* patch_positions is a (k,3) array; the other three arguments are whatever
\* the caller bound to them.
check_reflection_conditions(patch_positions, patch_normals, camera_pos, sun_direction, min_reflection_angle_deg) ==
  IF camera_pos.ndim = 0 THEN Raised("TypeError")            \* camera_pos[None, :]
  ELSE IF DotNdim(patch_normals, sun_direction) = 0
    THEN Raised("IndexError")                                \* dot_nl[:, None]
  ELSE IF sun_direction.ndim = 0 THEN Raised("TypeError")    \* sun_direction[None, :]
  ELSE IF patch_normals.ndim # 2 THEN Raised("ValueError")   \* einsum 'ij,ij->i'
  ELSE Returned([k \in 1..Len(patch_positions) |->
                   reflection_good_patch(patch_positions[k], patch_normals.val[k],
                                         camera_pos.val, sun_direction.val,
                                         min_reflection_angle_deg)])

(* -------------------- LightingAnalysis.filter_sun_occluded ------------- *)
\* 1e-2, the offset of a sun ray's origin, in units of 1e-8
SunOffset == 1000000

\* A hit on a sun ray is its distance from the ray's origin in units of 1e-8:
\* no hit; the patch's own triangle; a hit between origin and patch; a hit
\* nearer than the patch by less than the tolerance; a triangle between the
\* patch and the sun.
SunHitSets ==
  {{}, {SunOffset}, {SunOffset \div 2, SunOffset}, {SunOffset - 1, SunOffset},
   {SunOffset, HitUnit}}

\* sun_is_shadowed with np.all in the place of np.any
sun_is_shadowed_all(hits, n_candidates, sun_direction) ==
  [k \in 1..n_candidates |->
     /\ Dot(sun_direction, sun_direction) > 0
     /\ \A dist \in hits[k] : dist < SunOffset - (SunOffset \div 1000000 + 1)]

\* sun_is_shadowed looking for hits beyond the patch instead of before it
sun_is_shadowed_beyond(hits, n_candidates, sun_direction) ==
  [k \in 1..n_candidates |->
     /\ Dot(sun_direction, sun_direction) > 0
     /\ \E dist \in hits[k] : dist > SunOffset + (SunOffset \div 1000000 + 1)]

sun_is_shadowed(hits, n_candidates, sun_direction) ==
  [k \in 1..n_candidates |->
     LET actual_dist == SunOffset
         tolerance == actual_dist \div 1000000 + 1
     IN  \* a zero sun direction normalises to nan: every distance is nan
         /\ Dot(sun_direction, sun_direction) > 0
         /\ \E dist \in hits[k] : dist < actual_dist - tolerance]

\* filter_sun_occluded writing ~is_shadowed to the first positions of the mask
\* instead of the candidates' positions
filter_sun_occluded_prefix(hits, patch_positions, candidate_mask, sun_direction) ==
  LET is_shadowed == sun_is_shadowed(hits, Count(candidate_mask), sun_direction)
  IN  [i \in DOMAIN candidate_mask |->
         IF i <= Len(is_shadowed) THEN ~is_shadowed[i] ELSE candidate_mask[i]]

filter_sun_occluded(hits, patch_positions, candidate_mask, sun_direction) ==
  LET illuminated_mask == candidate_mask
      n_candidates == Count(candidate_mask)
      is_shadowed == sun_is_shadowed(hits, n_candidates, sun_direction)
  IN  IF Count(candidate_mask) = 0 THEN illuminated_mask
      ELSE ScatterInto(candidate_mask, [k \in DOMAIN is_shadowed |-> ~is_shadowed[k]])

(* ------------------------------ VisibilityStats ------------------------ *)
VisibilityStats(geometric_visible, light_illuminated, reflection_good, light_unoccluded, final_visible, visible_indices, incidence_angles, viewing_angles, total_patches, visible_area, total_area) ==
  [geometric_visible |-> geometric_visible,
   light_illuminated |-> light_illuminated,
   reflection_good |-> reflection_good,
   light_unoccluded |-> light_unoccluded,
   final_visible |-> final_visible,
   visible_indices |-> visible_indices,
   incidence_angles |-> incidence_angles,
   viewing_angles |-> viewing_angles,
   total_patches |-> total_patches,
   visible_area |-> visible_area,
   total_area |-> total_area]

\* VisibilityStats8 with a count that remembers an earlier invocation
VisibilityStats8_remembering(a1, a2, a3, a4, a5, a6, a7, a8) ==
  VisibilityStats(a1, a2, a3, a4, a5, a6, a7, a8,
                  IF inv.called THEN 1 ELSE 0, 0, 0)

\* The constructor called with eight positional arguments: total_patches,
\* visible_area and total_area take their defaults 0, 0.0 and 0.0.
VisibilityStats8(a1, a2, a3, a4, a5, a6, a7, a8) ==
  VisibilityStats(a1, a2, a3, a4, a5, a6, a7, a8, 0, 0, 0)

\* the stats field of an outcome that returned none
NoStats ==
  VisibilityStats(0, 0, 0, 0, 0, Vec(<<>>), Vec(<<>>), Vec(<<>>), 0, 0, 0)

(* -------------------- VisibilityAnalyzer.analyze_visibility ------------ *)
RECURSIVE SumFrom(_, _)
SumFrom(a, i) == IF i > Len(a) THEN 0 ELSE a[i] + SumFrom(a, i + 1)

\* np.sum of a number array
Sum(a) == SumFrom(a, 1)

\* mesh.area
MeshArea(mesh) == Sum(mesh.area_faces)

\* np.sum(area_faces[mask])
MaskedArea(area_faces, mask) == Sum(Take(area_faces, Where(mask)))

Clip(x, lo, hi) == IF x < lo THEN lo ELSE IF x > hi THEN hi ELSE x

\* arccos(clip(normal . sun_direction, -1, 1)), as the pair <<a, s>> of its
\* cosine a/sqrt(s)
IncidenceAngle(normal, sun_direction) ==
  << Clip(Dot(normal, sun_direction), -1, 1), 1 >>

\* arccos(clip(normal . normalize(camera - position), -1, 1)), likewise
ViewingAngle(normal, position, camera_pos) ==
  LET view_direction == VSub(camera_pos, position)
  IN  << Dot(normal, view_direction), Dot(view_direction, view_direction) >>

\* The ray caster's answer for the batch of rays to the patches idx, from
\* what it answers for the ray to each patch.
RayAnswers(hits_by_patch, idx) == Take(hits_by_patch, idx)

\* What an invocation did: it returned (mask, stats) or raised exc; calls are
\* the testers it called, in order; cam_rays and sun_rays are the patches to
\* whose centroids it asked the ray caster to cast a ray (none: no request).
Outcome(kind, exc, mask, stats, calls, cam_rays, sun_rays) ==
  [kind |-> kind, exc |-> exc, mask |-> mask, stats |-> stats, calls |-> calls,
   cam_rays |-> cam_rays, sun_rays |-> sun_rays]

\* the short-circuit test never taken
NoCandidates_never(candidate_indices) == Len(candidate_indices) < 0

\* if len(candidate_indices) == 0
NoCandidates(candidate_indices) == Len(candidate_indices) = 0

(* ------------------------------ the inputs ----------------------------- *)
\* A patch: centroid, normal and face area.  In turn: facing +x on the x
\* axis; facing -x on the far side; facing +x off the axis; facing +z; a
\* degenerate triangle (zero area, MeshProcessor's normal 0/1e-8 = 0).
PatchKinds ==
  { [position |-> <<1, 0, 0>>, normal |-> <<1, 0, 0>>, area |-> 2],
    [position |-> <<-1, 0, 0>>, normal |-> <<-1, 0, 0>>, area |-> 1],
    [position |-> <<1, 1, 0>>, normal |-> <<1, 0, 0>>, area |-> 1],
    [position |-> <<0, 0, 1>>, normal |-> <<0, 0, 1>>, area |-> 1],
    [position |-> Origin, normal |-> Origin, area |-> 0] }

\* VisibilityAnalyzer(mesh, patch_positions, patch_normals) over the patches ps
Analyzer(ps) ==
  [mesh |-> [area_faces |-> [k \in 1..Len(ps) |-> ps[k].area]],
   patch_positions |-> [k \in 1..Len(ps) |-> ps[k].position],
   patch_normals |-> [k \in 1..Len(ps) |-> ps[k].normal]]

Analyzers ==
  UNION {{Analyzer(ps) : ps \in [1..n -> PatchKinds]} : n \in 0..MaxPatches}

\* On the x axis either side; above the xz diagonal; on the z axis (view axis
\* parallel to world_up); at the target.
Cameras == {<<3, 0, 0>>, <<-3, 0, 0>>, <<2, 0, 2>>, <<0, 0, 3>>, Origin}

Suns == {<<1, 0, 0>>, <<0, 0, 1>>, Origin}

NPatches(self) == Len(self.patch_positions)

(* ------------------------------- the state ----------------------------- *)

\* The arguments of analyze_visibility.
Args(camera_pos, sun_direction, target, fx, fy, mv, ms, mr) ==
  [camera_pos |-> camera_pos, sun_direction |-> sun_direction, target |-> target,
   fov_x_deg |-> fx, fov_y_deg |-> fy, max_viewing_angle_deg |-> mv,
   max_sun_angle_deg |-> ms, max_reflection_angle_deg |-> mr]

\* An invocation: its arguments, what the ray caster answered for the camera
\* ray and the sun ray of each patch it was asked about, the invocation's
\* local masks (<<>>: not computed) and its outcome.
Invocation(args, cam_hits, sun_hits, geometric_visible, unoccluded_mask, light_illuminated, reflection_good, light_unoccluded, outcome) ==
  [called |-> TRUE, args |-> args, cam_hits |-> cam_hits, sun_hits |-> sun_hits,
   geometric_visible |-> geometric_visible, unoccluded_mask |-> unoccluded_mask,
   light_illuminated |-> light_illuminated, reflection_good |-> reflection_good,
   light_unoccluded |-> light_unoccluded, outcome |-> outcome]

NoInv ==
  [Invocation(Args(Origin, Origin, Origin, 0, 0, 0, 0, 0), <<>>, <<>>, <<>>, <<>>,
              <<>>, <<>>, <<>>, Outcome("", "", <<>>, NoStats, <<>>, <<>>, <<>>))
   EXCEPT !.called = FALSE]

NoCall ==
  [op |-> "", camera_pos |-> Origin, target |-> Origin, sun_direction |-> Origin,
   candidate_mask |-> <<>>, hits |-> <<>>, fov_x_deg |-> 0, fov_y_deg |-> 0,
   angle_deg |-> 0, combined |-> <<>>, mask |-> <<>>, ray_requests |-> 0,
   triangles |-> <<>>, direction |-> Direction(Origin, 1), masks |-> <<>>,
   order |-> <<>>, result |-> <<>>]

(* ----------------------------- main(): state -------------------------- *)
\* A quotient num/den of two numpy numbers: nan when den = 0 (and num = 0).
Quotient(num, den) == [num |-> num, den |-> den]

NotComputed == [num |-> -1, den |-> -1]

\* main() before its loop: combined_visibility_mask is all False, and nothing
\* is computed yet.  returned lists the masks the invocations returned.
MainStart(self) ==
  [pc |-> "loop", i |-> 0, exc |-> "",
   combined_visibility_mask |-> [k \in 1..Len(self.patch_positions) |-> FALSE],
   returned |-> <<>>,
   num_coverage |-> NotComputed, area_coverage |-> NotComputed]

(* ------------------------ direct calls of the testers ------------------ *)
\* The testers are static and keep no state: a behaviour of SpecFn is one
\* call of one tester on the mesh drawn by InitFn.
Idle == call.op = ""

\* The calls of mesh.ray.intersects_location one call of a tester makes: the
\* testers return before their ray cast when no candidate is given.
ray_requests_always(candidate_mask) == 1

ray_requests(candidate_mask) == IF Count(candidate_mask) = 0 THEN 0 ELSE 1

\* the merge with & in the place of |
MaskAnd(combined, mask) == [k \in DOMAIN combined |-> combined[k] /\ mask[k]]

\* the merge keeping only the last mask
MaskOverwrite(combined, mask) == mask

\* combined_visibility_mask | visibility_mask
MaskOr(combined, mask) == [k \in DOMAIN combined |-> combined[k] \/ mask[k]]

\* the targets of a direct call: the default, and a point behind the camera
\* at (3,0,0) as seen from the patches
FovTargets == {Origin, <<4, 0, 0>>}

CallCheckFov ==
  \E cam \in Cameras, target \in FovTargets :
  \E fx \in FovDegs, fy \in FovDegs, a \in AnglesDeg :
    /\ Idle
    /\ call' = [NoCall EXCEPT
         !.op = "check_fov_visibility", !.camera_pos = cam, !.target = target,
         !.fov_x_deg = fx, !.fov_y_deg = fy, !.angle_deg = a,
         !.result = check_fov_visibility(analyzer.patch_positions,
                      analyzer.patch_normals, cam, target, fx, fy, a)]
    /\ UNCHANGED <<analyzer, inv, prev, main>>

CallFilterOccluded ==
  \E cam \in Cameras, mask \in Masks(NPatches(analyzer)) :
    \E hits \in [1..Count(mask) -> CamHitSets] :
      /\ Idle
      /\ call' = [NoCall EXCEPT
           !.op = "filter_occluded_patches", !.camera_pos = cam,
           !.candidate_mask = mask, !.hits = hits,
           !.ray_requests = ray_requests(mask),
           !.result = filter_occluded_patches(hits, analyzer.patch_positions,
                                              cam, mask)]
      /\ UNCHANGED <<analyzer, inv, prev, main>>

CallFilterSunOccluded ==
  \E sun \in Suns, mask \in Masks(NPatches(analyzer)) :
    \E hits \in [1..Count(mask) -> SunHitSets] :
      /\ Idle
      /\ call' = [NoCall EXCEPT
           !.op = "filter_sun_occluded", !.sun_direction = sun,
           !.candidate_mask = mask, !.hits = hits,
           !.ray_requests = ray_requests(mask),
           !.result = filter_sun_occluded(hits, analyzer.patch_positions,
                                          mask, sun)]
      /\ UNCHANGED <<analyzer, inv, prev, main>>

(* ------------------ MeshProcessor.load_and_process_mesh ---------------- *)
\* A triangle is its three vertices.  In turn: facing +z; the same with the
\* other winding; three collinear vertices; three equal vertices.  The sums
\* of the coordinates are multiples of 3, so the centroids are integers.
TriangleKinds ==
  { << <<0, 0, 0>>, <<3, 0, 0>>, <<0, 3, 0>> >>,
    << <<0, 0, 0>>, <<0, 3, 0>>, <<3, 0, 0>> >>,
    << <<0, 0, 0>>, <<3, 0, 0>>, <<6, 0, 0>> >>,
    << <<3, 3, 3>>, <<3, 3, 3>>, <<3, 3, 3>> >> }

\* norms without the floor: a zero norm stays the denominator
unfloored_norm(nn) == [floored |-> FALSE, norm_sq |-> nn]

\* np.maximum(norms, 1e-8) for a norm sqrt(nn), nn an integer: the floor 1e-8
\* replaces the norm exactly when nn = 0
floored_norm(nn) == [floored |-> nn = 0, norm_sq |-> nn]

\* v is a triple of numbers when divided by the denominator d: 0/0 is nan
IsNumberTriple(v, d) == d.floored \/ d.norm_sq > 0

\* The centroid and the normal of each triangle; a normal is the vector vec
\* divided by the denominator den.
load_and_process_mesh(triangles) ==
  LET v1(t) == VSub(t[2], t[1])
      v2(t) == VSub(t[3], t[1])
      normals(t) == Cross(v1(t), v2(t))
  IN  [patch_positions |->
         [k \in 1..Len(triangles) |->
            [c \in 1..3 |->
               (triangles[k][1][c] + triangles[k][2][c] + triangles[k][3][c]) \div 3]],
       patch_normals |->
         [k \in 1..Len(triangles) |->
            [vec |-> normals(triangles[k]),
             den |-> floored_norm(Dot(normals(triangles[k]), normals(triangles[k])))]]]

\* The patch extraction on the triangles of a mesh.
CallLoadAndProcessMesh ==
  \E n \in 0..MaxPatches :
    \E triangles \in [1..n -> TriangleKinds] :
      /\ Idle
      /\ call' = [NoCall EXCEPT
           !.op = "load_and_process_mesh", !.triangles = triangles,
           !.result = load_and_process_mesh(triangles)]
      /\ UNCHANGED <<analyzer, inv, prev, main>>

\* The sun directions of a direct call: those of Suns and two unit vectors
\* between the x and the z axis, (1,0,1)/sqrt(2) and (2,0,1)/sqrt(5).
SunDirections ==
  {Direction(sun, 1) : sun \in Suns}
    \cup {Direction(<<1, 0, 1>>, 2), Direction(<<2, 0, 1>>, 5)}

CallCheckSunIllumination ==
  \E direction \in SunDirections, a \in AnglesDeg :
    /\ Idle
    /\ call' = [NoCall EXCEPT
         !.op = "check_sun_illumination", !.direction = direction,
         !.angle_deg = a,
         !.result = check_sun_illumination_dir(analyzer.patch_normals, direction, a)]
    /\ UNCHANGED <<analyzer, inv, prev, main>>

\* The merge of main()'s loop, on a combined mask and a returned mask.
CallMaskOr ==
  \E combined \in Masks(NPatches(analyzer)), mask \in Masks(NPatches(analyzer)) :
    /\ Idle
    /\ call' = [NoCall EXCEPT
         !.op = "merge", !.combined = combined, !.mask = mask,
         !.result = MaskOr(combined, mask)]
    /\ UNCHANGED <<analyzer, inv, prev, main>>

InitFn ==
  /\ analyzer \in Analyzers
  /\ call = NoCall
  /\ inv = NoInv
  /\ prev = NoInv
  /\ main = MainStart(analyzer)

NextFn ==
  CallCheckFov \/ CallFilterOccluded \/ CallFilterSunOccluded \/ CallMaskOr
    \/ CallLoadAndProcessMesh \/ CallCheckSunIllumination

SpecFn == InitFn /\ [][NextFn]_vars

(* -------------------- VisibilityAnalyzer.analyze_visibility ------------ *)
Range(f) == {f[k] : k \in DOMAIN f}

\* the camera-occlusion ray cast ahead of the cull
EarlyCalls_occlusion_first == <<"filter_occluded_patches", "check_fov_visibility">>

\* the testers an invocation has called when it tests for the short-circuit
EarlyCalls == <<"check_fov_visibility", "filter_occluded_patches">>

LightingCalls ==
  EarlyCalls \o <<"check_sun_illumination", "check_reflection_conditions">>

AllCalls == LightingCalls \o <<"filter_sun_occluded">>

\* The invocation self.analyze_visibility(args), start to end.  Each local of
\* the method is bound once, in the order the method computes it; ch and sh
\* are the ray caster's answers to the two batches of rays.
AnalyzeVisibility(self, a) ==
  \E fov_returned \in
       {check_fov_visibility(self.patch_positions, self.patch_normals, a.camera_pos,
                             a.target, a.fov_x_deg, a.fov_y_deg,
                             a.max_viewing_angle_deg)} :
  \E ch \in [Range(Where(fov_returned)) -> CamHitSets] :
  \E unoccluded_mask \in
       {filter_occluded_patches(RayAnswers(ch, Where(fov_returned)),
                                self.patch_positions, a.camera_pos,
                                fov_returned)} :
  \* the array named geometric_visible, as the rest of the method reads it
  \E geometric_visible \in {candidate_mask_after(fov_returned, unoccluded_mask)} :
  \E candidate_indices \in {Where(unoccluded_mask)} :
    IF NoCandidates(candidate_indices)
    THEN inv' =
           Invocation(a, ch, <<>>, geometric_visible, unoccluded_mask, <<>>, <<>>, <<>>,
             Outcome("return", "", zeros_like(geometric_visible),
                     VisibilityStats8(0, 0, 0, 0, 0,
                                      Scalar(Len(self.patch_positions)),
                                      Scalar(0), Scalar(0)),
                     EarlyCalls, Where(geometric_visible), <<>>))
    ELSE
      \E candidate_positions \in {Take(self.patch_positions, candidate_indices)} :
      \E candidate_normals \in {Take(self.patch_normals, candidate_indices)} :
      \E light_illuminated \in
           {check_sun_illumination(candidate_normals, a.sun_direction,
                                   a.max_sun_angle_deg)} :
      \* four positional arguments: camera_pos lands on patch_normals,
      \* sun_direction on camera_pos, the angle on sun_direction, and
      \* min_reflection_angle_deg keeps its default 30.0
      \E reflection \in
           {check_reflection_conditions(candidate_positions, Vec(a.camera_pos),
                                        Vec(a.sun_direction),
                                        Scalar(a.max_reflection_angle_deg), 30)} :
        IF reflection.kind = "raise"
        THEN inv' =
               Invocation(a, ch, <<>>, geometric_visible, unoccluded_mask,
                 light_illuminated, <<>>, <<>>,
                 Outcome("raise", reflection.exc, <<>>, NoStats, LightingCalls,
                         Where(geometric_visible), <<>>))
        ELSE
          \E reflection_good \in {reflection.mask} :
          \E lighting_candidates \in
               {[k \in DOMAIN light_illuminated |->
                   light_illuminated[k] /\ reflection_good[k]]} :
          \E sun_rays \in {Take(candidate_indices, Where(lighting_candidates))} :
          \E sh \in [Range(sun_rays) -> SunHitSets] :
          \E light_unoccluded \in
               {filter_sun_occluded(RayAnswers(sh, sun_rays), candidate_positions,
                                    lighting_candidates, a.sun_direction)} :
          \E final_visible_mask \in
               {Scatter(zeros_like(geometric_visible), candidate_indices,
                        [k \in DOMAIN light_illuminated |->
                           /\ light_illuminated[k]
                           /\ reflection_good[k]
                           /\ light_unoccluded[k]])} :
          \E visible_indices \in {Where(final_visible_mask)} :
            inv' =
              Invocation(a, ch, sh, geometric_visible, unoccluded_mask,
                light_illuminated, reflection_good, light_unoccluded,
                Outcome("return", "", final_visible_mask,
                  VisibilityStats(
                    Count(geometric_visible), Count(light_illuminated),
                    Count(reflection_good), Count(light_unoccluded),
                    Count(final_visible_mask), Vec(visible_indices),
                    Vec([k \in DOMAIN visible_indices |->
                           IncidenceAngle(self.patch_normals[visible_indices[k]],
                                          a.sun_direction)]),
                    Vec([k \in DOMAIN visible_indices |->
                           ViewingAngle(self.patch_normals[visible_indices[k]],
                                        self.patch_positions[visible_indices[k]],
                                        a.camera_pos)]),
                    Len(self.patch_positions),
                    MaskedArea(self.mesh.area_faces, final_visible_mask),
                    MeshArea(self.mesh)),
                  AllCalls, Where(geometric_visible), sun_rays))

ViewAngles == {60, 90}

SunAngles == {60, 90}

ReflAngles == {90, 180}

\* One invocation on the analyzer, with arguments of the caller's choice.
Analyze ==
  /\ ~inv.called
  /\ \E cam \in Cameras, sun \in Suns, fx \in FovDegs, fy \in FovDegs :
       \E mv \in ViewAngles, ms \in SunAngles, mr \in ReflAngles :
         AnalyzeVisibility(analyzer, Args(cam, sun, Origin, fx, fy, mv, ms, mr))
  /\ UNCHANGED <<analyzer, call, prev, main>>

\* A second invocation on the same analyzer, with the arguments of the first.
AnalyzeAgain ==
  /\ inv.called
  /\ ~prev.called
  /\ AnalyzeVisibility(analyzer, inv.args)
  /\ prev' = inv
  /\ UNCHANGED <<analyzer, call, main>>

Init ==
  /\ analyzer \in Analyzers
  /\ call = NoCall
  /\ inv = NoInv
  /\ prev = NoInv
  /\ main = MainStart(analyzer)

Next == Analyze \/ AnalyzeAgain

Spec == Init /\ [][Next]_vars

(* ------------------- analyze_visibility on one flat patch -------------- *)
\* A mesh of a single flat patch at the origin, its normal (0,0,1).
FlatPatch ==
  Analyzer(<<[position |-> Origin, normal |-> <<0, 0, 1>>, area |-> 1]>>)

\* straight above the patch, straight below it, and two oblique positions
FlatCameras == {<<0, 0, 10>>, <<0, 0, -10>>, <<10, 0, 10>>, <<10, 0, 0>>}

FlatSuns == {<<0, 0, 1>>, <<1, 0, 0>>}

\* One invocation on the flat patch, the camera aimed at the origin.
AnalyzeFlat ==
  /\ ~inv.called
  /\ \E cam \in FlatCameras, sun \in FlatSuns, fx \in FovDegs, fy \in FovDegs :
       \E mv \in ViewAngles, ms \in SunAngles, mr \in ReflAngles :
         AnalyzeVisibility(analyzer, Args(cam, sun, Origin, fx, fy, mv, ms, mr))
  /\ UNCHANGED <<analyzer, call, prev, main>>

InitFlat ==
  /\ analyzer = FlatPatch
  /\ call = NoCall
  /\ inv = NoInv
  /\ prev = NoInv
  /\ main = MainStart(analyzer)

NextFlat == AnalyzeFlat

SpecFlat == InitFlat /\ [][NextFlat]_vars

(* ------------------------------- main() -------------------------------- *)
\* The sweep's configurations (37 in main(), 10 degrees apart).
NumConfigs == 3

\* camera_distance * (cos theta, sin theta, 0): a quarter turn per configuration
SweepCamera(i) ==
  << <<3, 0, 0>>, <<0, 3, 0>>, <<-3, 0, 0>>, <<0, -3, 0>> >>[(i % 4) + 1]

\* beta = 0, and the keyword arguments of the call in the loop
SweepArgs(i) == Args(SweepCamera(i), <<1, 0, 0>>, Origin, 2, 2, 60, 90, 100)

\* VisibilityStats.print_summary: the exception it raises ("": none).  The
\* first division is geometric_visible/total_patches; of the two only a
\* short-circuit's stats hold Python numbers, and they hold total_patches = 0.
print_summary(stats) ==
  IF stats.total_patches = 0 THEN "ZeroDivisionError" ELSE ""

\* The lines after the loop: the two coverage quotients.
CombinedResults(m, self) ==
  [m EXCEPT
     !.pc = "done",
     !.num_coverage =
        Quotient(Count(m.combined_visibility_mask), Len(self.patch_positions)),
     !.area_coverage =
        Quotient(MaskedArea(self.mesh.area_faces, m.combined_visibility_mask),
                 MeshArea(self.mesh))]

\* main() after the invocation of configuration m.i ended with outcome out
AfterInvocation(m, out, self) ==
  IF out.kind = "raise" THEN [m EXCEPT !.pc = "raised", !.exc = out.exc]
  ELSE
    LET merged ==
          [m EXCEPT
             !.combined_visibility_mask = MaskOr(m.combined_visibility_mask, out.mask),
             !.returned = Append(m.returned, out.mask)]
    IN  IF print_summary(out.stats) # ""
          THEN [merged EXCEPT !.pc = "raised", !.exc = print_summary(out.stats)]
        ELSE IF m.i + 1 < NumConfigs THEN [merged EXCEPT !.i = m.i + 1]
        ELSE CombinedResults([merged EXCEPT !.i = m.i + 1], self)

\* One turn of the loop of main() and, after the last, the combined results.
MainStep ==
  /\ main.pc = "loop"
  /\ AnalyzeVisibility(analyzer, SweepArgs(main.i))
  /\ main' = AfterInvocation(main, inv'.outcome, analyzer)
  /\ UNCHANGED <<analyzer, call, prev>>

InitMain == Init

NextMain == MainStep

SpecMain == InitMain /\ [][NextMain]_vars

(* --------------------- the sweep merged in any order ------------------- *)
\* The merges of main()'s loop on the masks its invocations returned, in the
\* loop's order, from configuration i on.
RECURSIVE SweepFrom(_, _, _)
SweepFrom(combined, masks, i) ==
  IF i > Len(masks) THEN combined
  ELSE SweepFrom(MaskOr(combined, masks[i]), masks, i + 1)

\* The invocations of the sweep's configurations have returned their masks:
\* any masks of one entry per patch.
TasksReturn ==
  /\ Idle
  /\ \E masks \in [1..NumConfigs -> Masks(NPatches(analyzer))] :
       call' = [NoCall EXCEPT !.op = "tasks", !.masks = masks]
  /\ UNCHANGED <<analyzer, inv, prev, main>>

\* The merge of main()'s loop for one configuration not merged yet, whichever
\* it is, and after the last merge the combined results.
MergeTask ==
  /\ call.op = "tasks"
  /\ main.pc = "loop"
  /\ \E i \in (1..NumConfigs) \ Range(call.order) :
       LET merged ==
             [main EXCEPT
                !.combined_visibility_mask = MaskOr(@, call.masks[i]),
                !.returned = Append(@, call.masks[i]),
                !.i = @ + 1]
       IN  /\ call' = [call EXCEPT !.order = Append(@, i)]
           /\ main' = IF merged.i < NumConfigs THEN merged
                      ELSE CombinedResults(merged, analyzer)
  /\ UNCHANGED <<analyzer, inv, prev>>

InitTasks == Init

NextTasks == TasksReturn \/ MergeTask

SpecTasks == InitTasks /\ [][NextTasks]_vars

(* ------------------------------ properties ----------------------------- *)
\* every patch true in mask a is true in mask b
SubMask(a, b) == Len(a) = Len(b) /\ \A i \in DOMAIN a : a[i] => b[i]

\* What the five tests say of patch i in the last invocation, from the
\* invocation's arguments, the analyzer's patches and the ray caster's answers.
PassesAllTests(i) ==
  LET a == inv.args
      position == analyzer.patch_positions[i]
      normal == analyzer.patch_normals[i]
  IN  /\ inv.geometric_visible[i]
      /\ inv.unoccluded_mask[i]
      /\ sun_illuminated_patch(normal, a.sun_direction, a.max_sun_angle_deg)
      /\ reflection_good_patch(position, normal, a.camera_pos, a.sun_direction,
                               a.max_reflection_angle_deg)
      /\ i \in DOMAIN inv.sun_hits
      /\ ~sun_is_shadowed(<<inv.sun_hits[i]>>, 1, a.sun_direction)[1]

\* C1 (Spec): an invocation whose camera-unoccluded set is non-empty returns
\* a mask with one entry per patch, and patch i is true in it exactly when it
\* passes the FOV/orientation cull, is not camera-occluded, passes the
\* sun-illumination test and the reflection test, and is not sun-occluded.
C1_FinalMaskIsConjunction ==
  (inv.called /\ Count(inv.unoccluded_mask) > 0) =>
    /\ inv.outcome.kind = "return"
    /\ Len(inv.outcome.mask) = NPatches(analyzer)
    /\ \A i \in 1..NPatches(analyzer) : inv.outcome.mask[i] <=> PassesAllTests(i)

\* C2 (Spec): every invocation whose camera is not at the target and whose
\* sun direction is not zero returns (mask, stats); it does not raise.
C2_ReturnsWithoutRaising ==
  (inv.called /\ inv.args.camera_pos # inv.args.target
              /\ inv.args.sun_direction # Origin) =>
    inv.outcome.kind = "return"

\* C3 (SpecFn): the mask filter_occluded_patches returns is a subset of the
\* candidate mask, whatever the ray caster answered.
C3_CameraOcclusionSubset ==
  call.op = "filter_occluded_patches" => SubMask(call.result, call.candidate_mask)

\* a call whose ray caster reported hits, and which kept the second patch,
\* the first not being a candidate
C3_Witness ==
  /\ call.op = "filter_occluded_patches"
  /\ Len(call.candidate_mask) = 2
  /\ ~call.candidate_mask[1]
  /\ ~NoHits(call.hits)
  /\ call.result[2]

\* C4 (SpecFn): the mask filter_sun_occluded returns is a subset of the
\* candidate mask, whatever the ray caster answered.
C4_SunOcclusionSubset ==
  call.op = "filter_sun_occluded" => SubMask(call.result, call.candidate_mask)

\* a call that kept the second patch, the first not being a candidate
C4_Witness ==
  /\ call.op = "filter_sun_occluded"
  /\ Len(call.candidate_mask) = 2
  /\ ~call.candidate_mask[1]
  /\ call.result[2]

\* C5 (Spec): when no patch is left after camera-occlusion filtering, the
\* invocation returns an all-false mask with one entry per patch and stats
\* whose stage counts and visible area are zero, and it calls neither the
\* illumination test, nor the reflection test, nor the sun-occlusion ray cast.
C5_EmptyShortCircuit ==
  (inv.called /\ Count(inv.unoccluded_mask) = 0) =>
    /\ inv.outcome.kind = "return"
    /\ inv.outcome.mask = [i \in 1..NPatches(analyzer) |-> FALSE]
    /\ inv.outcome.stats.geometric_visible = 0
    /\ inv.outcome.stats.light_illuminated = 0
    /\ inv.outcome.stats.reflection_good = 0
    /\ inv.outcome.stats.light_unoccluded = 0
    /\ inv.outcome.stats.final_visible = 0
    /\ inv.outcome.stats.visible_area = 0
    /\ inv.outcome.calls = EarlyCalls
    /\ inv.outcome.sun_rays = <<>>

\* an invocation whose FOV candidates were all occluded, and which returned
C5_Witness ==
  /\ inv.called
  /\ Count(inv.geometric_visible) > 0
  /\ Count(inv.unoccluded_mask) = 0
  /\ inv.outcome.kind = "return"
  /\ Len(inv.outcome.mask) > 0

\* a coverage quotient that is a number in [0, 1]
InUnit(q) == q.den > 0 /\ 0 <= q.num /\ q.num <= q.den

\* C6 (SpecMain): the sweep ends with a combined mask that is true for patch
\* k exactly when the mask of some processed configuration was, with a
\* patch-count coverage of (true entries of the combined mask)/(patches) and
\* an area coverage of (area of those patches)/(mesh area).
C6_SweepCombinesAndMeasures ==
  main.pc # "loop" =>
    /\ main.pc = "done"
    /\ Len(main.returned) = NumConfigs
    /\ \A k \in DOMAIN main.combined_visibility_mask :
         main.combined_visibility_mask[k] <=>
           \E j \in DOMAIN main.returned : main.returned[j][k]
    /\ main.num_coverage =
         Quotient(Count(main.combined_visibility_mask), NPatches(analyzer))
    /\ main.area_coverage =
         Quotient(MaskedArea(analyzer.mesh.area_faces, main.combined_visibility_mask),
                  MeshArea(analyzer.mesh))

\* C7 (SpecFn): the merge of the sweep only grows the combined mask: every
\* patch true before the merge is true after it, so the covered patch count
\* and the covered area do not decrease.
C7_CombinedMaskGrows ==
  call.op = "merge" =>
    /\ SubMask(call.combined, call.result)
    /\ Count(call.combined) <= Count(call.result)
    /\ MaskedArea(analyzer.mesh.area_faces, call.combined)
         <= MaskedArea(analyzer.mesh.area_faces, call.result)

\* a merge of a mask that misses a patch the combined mask holds, and adds one
C7_Witness ==
  /\ call.op = "merge"
  /\ \E k \in DOMAIN call.combined : call.combined[k] /\ ~call.mask[k]
  /\ \E k \in DOMAIN call.combined : ~call.combined[k] /\ call.mask[k]
  /\ Count(call.combined) < Count(call.result)

\* C8 (SpecMain): the sweep ends with a patch-count coverage and an area
\* coverage that are both at least 0 and at most 1, whatever the mesh.
C8_CoverageInUnitInterval ==
  main.pc # "loop" =>
    /\ main.pc = "done"
    /\ InUnit(main.num_coverage)
    /\ InUnit(main.area_coverage)

C10_FovMonotonicInAngle ==
  call.op = "check_fov_visibility" =>
    \A b \in AnglesDeg :
      b >= call.angle_deg =>
        SubMask(call.result,
                check_fov_visibility(analyzer.patch_positions, analyzer.patch_normals,
                                     call.camera_pos, call.target, call.fov_x_deg,
                                     call.fov_y_deg, b))

\* a call whose mask holds a patch, and which a wider threshold extends
C10_Witness ==
  /\ call.op = "check_fov_visibility"
  /\ Count(call.result) > 0
  /\ \E b \in AnglesDeg :
       /\ b > call.angle_deg
       /\ Count(check_fov_visibility(analyzer.patch_positions, analyzer.patch_normals,
                                     call.camera_pos, call.target, call.fov_x_deg,
                                     call.fov_y_deg, b)) > Count(call.result)

\* C11 (SpecFn): given a candidate mask with no true entry,
\* filter_occluded_patches and filter_sun_occluded return a mask equal to
\* the input, all false, and make no ray-cast request to the mesh.
C11_EmptyCandidatesNoOp ==
  (call.op \in {"filter_occluded_patches", "filter_sun_occluded"}
     /\ Count(call.candidate_mask) = 0) =>
    /\ call.result = call.candidate_mask
    /\ Count(call.result) = 0
    /\ call.ray_requests = 0

\* a call of filter_sun_occluded on two patches, neither a candidate
C11_Witness ==
  /\ call.op = "filter_sun_occluded"
  /\ Len(call.candidate_mask) = 2
  /\ Count(call.candidate_mask) = 0
  /\ call.result = <<FALSE, FALSE>>

\* C12 (SpecFn): when the ray caster returns no intersection for the whole
\* batch of rays, filter_occluded_patches and filter_sun_occluded return a
\* mask equal to their candidate mask: no candidate is removed.
C12_NoIntersectionsKeepAll ==
  (call.op \in {"filter_occluded_patches", "filter_sun_occluded"}
     /\ \A k \in DOMAIN call.hits : call.hits[k] = {}) =>
    call.result = call.candidate_mask

\* a call of filter_sun_occluded that cast a ray, with a sun direction that
\* is not zero, and got no intersection
C12_Witness ==
  /\ call.op = "filter_sun_occluded"
  /\ call.ray_requests = 1
  /\ call.sun_direction # Origin
  /\ \A k \in DOMAIN call.hits : call.hits[k] = {}
  /\ Count(call.result) > 0

\* The last invocation is the one on the flat patch with the camera at cam
\* aimed at the origin, the sun at (0,0,1), FOV 90 in both axes, the three
\* angle thresholds 90, 90 and 180, and no occluder on any camera ray.
FlatScenario(cam) ==
  /\ inv.called
  /\ analyzer = FlatPatch
  /\ inv.args = Args(cam, <<0, 0, 1>>, Origin, 90, 90, 90, 90, 180)
  /\ \A k \in DOMAIN inv.cam_hits : inv.cam_hits[k] \subseteq {HitUnit}

\* C13 (SpecFlat): on the single flat patch, with the camera at (0,0,10), the
\* invocation returns the final mask [true].
C13_FlatPatchSeenFromAbove ==
  FlatScenario(<<0, 0, 10>>) =>
    inv.outcome.kind = "return" /\ inv.outcome.mask = <<TRUE>>

\* C14 (SpecFlat): on the single flat patch, with the camera at (0,0,-10),
\* the invocation returns the final mask [false].
C14_FlatPatchUnseenFromBelow ==
  FlatScenario(<<0, 0, -10>>) =>
    inv.outcome.kind = "return" /\ inv.outcome.mask = <<FALSE>>

\* the invocation with the camera below the patch has ended
C14_Witness ==
  /\ FlatScenario(<<0, 0, -10>>)
  /\ inv.outcome.kind = "return"
  /\ inv.outcome.calls = EarlyCalls

\* In the last call of filter_occluded_patches both of two patches are
\* candidates, apart from the camera; the ray to patch near hits nothing
\* before near's own triangle, and the ray to patch far hits a triangle at
\* half far's distance before it hits far's own.
OneOccludesTheOther(near, far) ==
  /\ call.op = "filter_occluded_patches"
  /\ call.candidate_mask = <<TRUE, TRUE>>
  /\ \A k \in 1..2 : analyzer.patch_positions[k] # call.camera_pos
  /\ call.hits[near] \subseteq {HitUnit, 2 * HitUnit}
  /\ call.hits[far] = {HitUnit \div 2, HitUnit}

\* C15 (SpecFn): of two candidate patches, where the ray from the camera to
\* the farther one hits the nearer one's triangle at a strictly smaller
\* distance, filter_occluded_patches keeps the nearer and drops the farther.
C15_NearerOccludesFarther ==
  \A near \in 1..2, far \in 1..2 :
    (near # far /\ OneOccludesTheOther(near, far)) =>
      call.result[near] /\ ~call.result[far]

\* the second patch hides the first
C15_Witness ==
  /\ OneOccludesTheOther(2, 1)
  /\ call.result = <<FALSE, TRUE>>

\* C16 (Spec): an invocation whose camera position equals the target, or
\* whose sun direction is the zero vector, signals the violation and returns
\* no mask and no stats.
C16_InvalidVectorsRejected ==
  (inv.called /\ (inv.args.camera_pos = inv.args.target
                    \/ inv.args.sun_direction = Origin)) =>
    inv.outcome.kind = "raise"

\* the view axis target - camera is zero or parallel to world_up
DegenerateAxis(camera_pos, target) ==
  camera_pos[1] = target[1] /\ camera_pos[2] = target[2]

\* C17 (SpecFn): on degenerate geometry no error is raised and the result
\* has the usual shape: the patch extraction returns one centroid and one
\* normal, a triple of numbers, per triangle, zero-area triangles included;
\* check_fov_visibility with the camera at the target, or with a view axis
\* parallel to world_up, returns one boolean per patch (each False: the
\* comparisons with nan are False).
C17_DegenerateGeometryNoError ==
  /\ call.op = "load_and_process_mesh" =>
       /\ Len(call.result.patch_positions) = Len(call.triangles)
       /\ Len(call.result.patch_normals) = Len(call.triangles)
       /\ \A k \in DOMAIN call.result.patch_normals :
            IsNumberTriple(call.result.patch_normals[k].vec,
                           call.result.patch_normals[k].den)
  /\ (call.op = "check_fov_visibility" /\ DegenerateAxis(call.camera_pos, call.target)) =>
       /\ call.result \in Masks(NPatches(analyzer))
       /\ Count(call.result) = 0

\* an extraction of a zero-area triangle, whose normal is the zero vector
C17_Witness ==
  /\ call.op = "load_and_process_mesh"
  /\ Len(call.triangles) = 2
  /\ call.result.patch_normals[1].vec = Origin
  /\ call.result.patch_normals[1].den.floored
  /\ call.result.patch_normals[2].vec = <<0, 0, 9>>

\* C18 (Spec): the invocation evaluates the reflection test for each
\* camera-unoccluded candidate with the candidate's own normal, the camera
\* position, the sun direction and the caller's reflection threshold: the
\* result for a candidate is R.V >= cos(threshold).
C18_ReflectionUsesOwnNormal ==
  (inv.called /\ Count(inv.unoccluded_mask) > 0) =>
    LET candidate_indices == Where(inv.unoccluded_mask)
    IN  inv.reflection_good =
          [k \in 1..Len(candidate_indices) |->
             reflection_good_patch(analyzer.patch_positions[candidate_indices[k]],
                                   analyzer.patch_normals[candidate_indices[k]],
                                   inv.args.camera_pos, inv.args.sun_direction,
                                   inv.args.max_reflection_angle_deg)]

\* d/sqrt(s) >= cos(deg) for d > 0, with the cosine squared: it holds when
\* the cosine is negative, and when it is cos(90 degrees) = 6.1e-17
AtLeastCos(d, s, deg) ==
  Cos2(deg) <= 0 \/ 4 * d * d >= Cos2(deg) * Cos2(deg) * s

\* C19 (SpecFn): check_sun_illumination is true for patch i exactly when
\* normal_i . sun_direction > 0 and normal_i . sun_direction >=
\* cos(max_sun_angle_deg); it has one entry per normal and casts no ray.
C19_SunIlluminationPredicate ==
  call.op = "check_sun_illumination" =>
    /\ Len(call.result) = NPatches(analyzer)
    /\ call.ray_requests = 0
    /\ \A i \in 1..NPatches(analyzer) :
         LET d == Dot(analyzer.patch_normals[i], call.direction.vec)
         IN  call.result[i] <=>
               (d > 0 /\ AtLeastCos(d, call.direction.norm_sq, call.angle_deg))

\* a call where one patch faces the sun within the angle and another faces
\* it outside the angle
C19_Witness ==
  /\ call.op = "check_sun_illumination"
  /\ Len(call.result) = 2
  /\ call.result[1]
  /\ ~call.result[2]
  /\ Dot(analyzer.patch_normals[2], call.direction.vec) > 0

\* The five tests of patch i in the last call of check_fov_visibility, on
\* integers: v = position_i - camera, the axes z = target - camera,
\* x = cross(z, world_up) and y = cross(x, z) before they are normalised, of
\* squared norms zz, xx and xx * zz.  A zero axis has no direction, and no
\* patch has coordinates along it.
FiveTests(i) ==
  LET v == VSub(analyzer.patch_positions[i], call.camera_pos)
      z == VSub(call.target, call.camera_pos)
      x == Cross(z, world_up)
      y == Cross(x, z)
      zz == Dot(z, z)
      xx == Dot(x, x)
      nv == Dot(analyzer.patch_normals[i], v)
      tx == TanHalf(call.fov_x_deg)
      ty == TanHalf(call.fov_y_deg)
  IN  /\ zz > 0 /\ xx > 0 /\ Dot(v, v) > 0
      /\ Dot(v, z) > 0
      /\ nv < 0
      /\ AtLeastCos(-nv, Dot(v, v), call.angle_deg)
      /\ Dot(v, x) * Dot(v, x) * zz * tx[2] * tx[2]
           <= Dot(v, z) * Dot(v, z) * xx * tx[1] * tx[1]
      /\ Dot(v, y) * Dot(v, y) * ty[2] * ty[2]
           <= Dot(v, z) * Dot(v, z) * xx * ty[1] * ty[1]

\* C20 (SpecFn): check_fov_visibility is true for patch i exactly when the
\* patch is strictly in front of the camera, faces it, is within
\* max_angle_deg, and is within both FOV half-angles, in the frame
\* z = normalize(target - camera), x = normalize(cross(z, (0,0,1))),
\* y = cross(x, z); a patch failing one test is false.
C20_FovVisibilityPredicate ==
  call.op = "check_fov_visibility" =>
    /\ Len(call.result) = NPatches(analyzer)
    /\ \A i \in 1..NPatches(analyzer) : call.result[i] <=> FiveTests(i)

\* a call with the target behind the camera: the first patch is on the
\* camera's axis, faces the camera within the angle, and is behind it
C20_Witness ==
  /\ call.op = "check_fov_visibility"
  /\ call.camera_pos = <<3, 0, 0>>
  /\ call.target = <<4, 0, 0>>
  /\ call.angle_deg = 60
  /\ Len(call.result) = 2
  /\ analyzer.patch_positions[1] = <<1, 0, 0>>
  /\ analyzer.patch_normals[1] = <<1, 0, 0>>
  /\ ~call.result[1]

\* the number of candidates among the first i patches: the position of
\* candidate i's ray in the batch
RayOf(mask, i) == Cardinality({j \in 1..i : mask[j]})

\* a hit at t * 1e-8 of the way to a centroid at distance sqrt(dd) is nearer
\* than the centroid by more than dd's tolerance sqrt(dd) * 1e-6 + 1e-8
NearerBeyondTolerance(t, dd) ==
  /\ dd > 0
  /\ t + 100 < HitUnit
  /\ (t + 101 < HitUnit \/ dd > 1)

\* C21 (SpecFn): filter_occluded_patches removes candidate i exactly when
\* the ray caster reports, on the ray from the camera to i's centroid, a hit
\* nearer than the centroid by more than the tolerance d * 1e-6 + 1e-8; a hit
\* at the centroid's distance or farther never removes i, a candidate whose
\* ray has no hit stays, and only the hits on i's own ray count.
C21_CameraOcclusionPredicate ==
  call.op = "filter_occluded_patches" =>
    /\ Len(call.result) = Len(call.candidate_mask)
    /\ \A i \in DOMAIN call.candidate_mask :
         LET ray == VSub(analyzer.patch_positions[i], call.camera_pos)
             own_hits == call.hits[RayOf(call.candidate_mask, i)]
         IN  /\ ~call.candidate_mask[i] => ~call.result[i]
             /\ call.candidate_mask[i] =>
                  /\ call.result[i] <=>
                       ~\E t \in own_hits : NearerBeyondTolerance(t, Dot(ray, ray))
                  /\ (\A t \in own_hits : t >= HitUnit) => call.result[i]

\* two candidates at a distance from the camera: the first has a hit half way
\* and is removed, the second has a hit nearer by less than the tolerance and
\* stays
C21_Witness ==
  /\ call.op = "filter_occluded_patches"
  /\ call.candidate_mask = <<TRUE, TRUE>>
  /\ call.camera_pos # analyzer.patch_positions[1]
  /\ call.hits = <<{HitUnit \div 2, HitUnit}, {HitUnit - 50, HitUnit}>>
  /\ call.result = <<FALSE, TRUE>>

\* C22 (SpecFn): filter_sun_occluded removes every candidate that other
\* geometry shadows: a candidate on whose ray toward the sun the ray caster
\* reports a hit beyond the patch is false in the returned mask.
C22_ShadowedCandidatesRemoved ==
  (call.op = "filter_sun_occluded" /\ call.sun_direction # Origin) =>
    \A i \in DOMAIN call.candidate_mask :
      (/\ call.candidate_mask[i]
       /\ \E dist \in call.hits[RayOf(call.candidate_mask, i)] : dist > SunOffset)
        => ~call.result[i]

\* C23 (SpecFn): for a sun direction that can be normalised,
\* filter_sun_occluded marks candidate i shadowed exactly when the ray caster
\* reports, on the ray from p_i - 0.01 * s along s, a hit nearer to the ray's
\* origin than 0.01 - (0.01 * 1e-6 + 1e-8); a hit at 0.01 or farther (the
\* patch itself, or geometry between the patch and the sun) never shadows it.
C23_SunOcclusionPredicate ==
  (call.op = "filter_sun_occluded" /\ call.sun_direction # Origin) =>
    /\ Len(call.result) = Len(call.candidate_mask)
    /\ \A i \in DOMAIN call.candidate_mask :
         LET own_hits == call.hits[RayOf(call.candidate_mask, i)]
         IN  /\ ~call.candidate_mask[i] => ~call.result[i]
             /\ call.candidate_mask[i] =>
                  /\ ~call.result[i] <=> \E dist \in own_hits : dist + 2 < SunOffset
                  /\ (\A dist \in own_hits : dist >= SunOffset) => call.result[i]

\* two candidates: the first has a hit between its ray's origin and itself
\* and is shadowed, the second has a hit between itself and the sun and stays
C23_Witness ==
  /\ call.op = "filter_sun_occluded"
  /\ call.sun_direction # Origin
  /\ call.candidate_mask = <<TRUE, TRUE>>
  /\ call.hits = <<{SunOffset \div 2, SunOffset}, {SunOffset, HitUnit}>>
  /\ call.result = <<FALSE, TRUE>>

IsPrefix(a, b) == Len(a) <= Len(b) /\ \A k \in DOMAIN a : a[k] = b[k]

Ascending(a) == \A j, k \in DOMAIN a : j < k => a[j] < a[k]

\* C27 (Spec): an invocation whose camera-unoccluded set is non-empty
\* returns stats in which geometric_visible counts the FOV mask,
\* light_illuminated, reflection_good and light_unoccluded count the masks of
\* the three lighting tests over the camera-unoccluded candidates,
\* final_visible counts the final mask, visible_area is the area of the
\* final-visible patches, total_area the area of the mesh, and the indices and
\* the two angle sequences have final_visible entries, the indices ascending.
C27_FullPathStats ==
  (inv.called /\ Count(inv.unoccluded_mask) > 0) =>
    LET stats == inv.outcome.stats
    IN  /\ inv.outcome.kind = "return"
        /\ stats.geometric_visible = Count(inv.geometric_visible)
        /\ Len(inv.light_illuminated) = Count(inv.unoccluded_mask)
        /\ stats.light_illuminated = Count(inv.light_illuminated)
        /\ stats.reflection_good = Count(inv.reflection_good)
        /\ stats.light_unoccluded = Count(inv.light_unoccluded)
        /\ stats.final_visible = Count(inv.outcome.mask)
        /\ stats.visible_area = MaskedArea(analyzer.mesh.area_faces, inv.outcome.mask)
        /\ stats.total_area = MeshArea(analyzer.mesh)
        /\ stats.visible_indices = Vec(Where(inv.outcome.mask))
        /\ Ascending(stats.visible_indices.val)
        /\ Len(stats.visible_indices.val) = stats.final_visible
        /\ Len(stats.incidence_angles.val) = stats.final_visible
        /\ Len(stats.viewing_angles.val) = stats.final_visible

\* C28 (Spec): in the stats of every invocation that returns, total_patches
\* is the number of patches of the mesh, total_area is a number, and
\* visible_indices, incidence_angles and viewing_angles are sequences (arrays
\* of one dimension), empty or not.
C28_StatsWellFormed ==
  (inv.called /\ inv.outcome.kind = "return") =>
    LET stats == inv.outcome.stats
    IN  /\ stats.total_patches = NPatches(analyzer)
        /\ stats.total_area \in Nat
        /\ stats.visible_indices.ndim = 1
        /\ stats.incidence_angles.ndim = 1
        /\ stats.viewing_angles.ndim = 1

\* C29 (SpecMain): a configuration whose invocation takes the short-circuit
\* does not abort the sweep: its summary is printed without an exception, its
\* all-false mask is the one merged, and main() is in its loop or has
\* computed the combined coverage.
C29_ShortCircuitDoesNotAbort ==
  (inv.called /\ inv.outcome.kind = "return" /\ Count(inv.unoccluded_mask) = 0) =>
    /\ print_summary(inv.outcome.stats) = ""
    /\ main.pc \in {"loop", "done"}
    /\ main.exc = ""
    /\ main.returned[Len(main.returned)] = zeros_like(inv.geometric_visible)

\* The last invocation is one on the single flat patch with the camera at
\* (0,0,-10) aimed at the origin.
CameraBelowFlatPatch ==
  /\ inv.called
  /\ analyzer = FlatPatch
  /\ inv.args.camera_pos = <<0, 0, -10>>
  /\ inv.args.target = Origin

\* C30 as stated (SpecFlat): with the camera at (0,0,-10) the flat patch
\* fails the in-front test of check_fov_visibility.
C30_RejectedByInFront ==
  CameraBelowFlatPatch =>
    ~in_front(analyzer.patch_positions[1], inv.args.camera_pos, inv.args.target)

\* C30 (SpecFlat): with the camera at (0,0,-10) aimed at the origin the flat
\* patch passes the in-front test (it lies along the camera's forward axis)
\* and fails the facing test, its normal pointing away from the camera; the
\* cull's mask is [false].
C30_RejectedByFacing ==
  CameraBelowFlatPatch =>
    /\ in_front(analyzer.patch_positions[1], inv.args.camera_pos, inv.args.target)
    /\ ~facing_camera(analyzer.patch_positions[1], analyzer.patch_normals[1],
                      inv.args.camera_pos)
    /\ inv.geometric_visible = <<FALSE>>

\* the invocation with the camera below the patch, the widest FOV and the
\* widest viewing angle, has returned
C30_Witness ==
  /\ CameraBelowFlatPatch
  /\ inv.args.fov_x_deg = 90
  /\ inv.args.fov_y_deg = 90
  /\ inv.args.max_viewing_angle_deg = 90
  /\ inv.outcome.kind = "return"
  /\ inv.outcome.mask = <<FALSE>>

====
